---- MODULE Spec2Model ----
(***************************************************************************)
(* Model of the message-analysis service: the supervisor (main.py), the    *)
(* Kafka consume loop (src/kafka_consumer.py), the analysis agent          *)
(* (src/ai_agent.py) and the notification tool/primitive (src/tools).      *)
(*                                                                         *)
(* One main thread runs AIAgentService.start(); the SIGINT/SIGTERM handler *)
(* runs on that same thread between two of its statements, to completion.  *)
(* pc is the statement the main thread executes next; names carry the      *)
(* source line (start_consuming line 73 is "next_73").                     *)
(***************************************************************************)
EXTENDS Naturals, Sequences, FiniteSets, TLC

\* ---------------------------------------------------------------- bounds
MaxRecords == 2
MaxSignals == 1
MaxEntities == 2

\* ------------------------------------------------------- program constants
max_iterations == 5
\* Settings.health_check_port, default
health_check_port_default == 8080
\* WebServer.__init__(service_instance, port=8080, host)
WebServer_default_port == 8080

monitored_topic == "review"

None == "None"

\* ------------------------------------------------------------------ state
VARIABLES
  pc,            \* next statement of the main thread
  ret,           \* where stop_consuming returns to when the main thread runs it
  pending,       \* exception propagating out of start_consuming ("none" if none)
  svcRunning,    \* AIAgentService.running
  webRunning,    \* WebServer.running
  mpRunning,     \* MessageProcessor.running
  consumer,      \* MessageProcessor.consumer: None or "kc"
  kc,            \* the KafkaConsumer object: "absent", "open" or "closed"
  closeCalls,    \* number of KafkaConsumer.close() calls made
  fetched,       \* records the consumer iterator has yielded, in order
  cur,           \* loop variable `message`
  dispatched,    \* arguments of every ai_agent_callback invocation, in order
  log,           \* per-record log lines: <<offset, event>>
  iterations,    \* AgentExecutor iteration counter of the running analysis
  toolSends,     \* HTTP POSTs made by the notification tool in this analysis
  fallbackSent,  \* payloads sent by the fallback of this analysis
  excText,       \* str(e) of the exception caught in process_unknown_message
  signals,       \* signals delivered so far
  stopIdx,       \* Len(fetched) when stop() was first requested (NoStop if never)
  loopStopIdx,   \* Len(fetched) when stop_consuming first ran under a running loop
  tOp,           \* tool or primitive applied last, on its own ("none" before)
  tIn,           \* its argument
  tHttp,         \* the outcome of its HTTP call
  tOut,          \* what it returned
  health_check_port   \* settings.health_check_port, read from the environment

vars == <<pc, ret, pending, svcRunning, webRunning, mpRunning, consumer, kc,
          closeCalls, fetched, cur, dispatched, log, iterations, toolSends,
          fallbackSent, excText, signals, stopIdx, loopStopIdx,
          tOp, tIn, tHttp, tOut, health_check_port>>

svcVars   == <<svcRunning, webRunning>>
mpVars    == <<mpRunning, consumer, kc, closeCalls>>
loopVars  == <<fetched, cur, dispatched, log>>
agentVars == <<iterations, toolSends, fallbackSent, excText>>
ghostVars == <<signals, stopIdx, loopStopIdx>>
toolVars  == <<tOp, tIn, tHttp, tOut>>
cfgVars   == <<health_check_port>>
mainVars  == <<pc, ret, pending, svcVars, mpVars, loopVars, agentVars, ghostVars,
               cfgVars>>

NoStop == MaxRecords + 1
NoMsg  == [topic |-> None, partition |-> 0, offset |-> 0, key |-> None,
           value |-> None, timestamp |-> 0, headers |-> "empty"]

\* ----------------------------------------------------------- bus records
Topics   == {monitored_topic, "other"}
RawValues == {"garbled", "", None}      \* payload bytes: text, b"" or null
RawHeaders == {"empty", "bytes"}        \* no headers, or (str, bytes) pairs

\* value_deserializer / key_deserializer: m.decode('utf-8') if m else None
value_deserializer(m) == IF m = "" \/ m = None THEN None ELSE m

\* the ConsumerRecord the iterator yields for the n-th record of the partition
ConsumerRecord(n, topic, raw, hdrs) ==
  [topic |-> topic, partition |-> 0, offset |-> n, key |-> None,
   value |-> value_deserializer(raw), timestamp |-> 1000 + n,
   headers |-> hdrs]

\* KafkaMessage(...) built from the record, lines 79-87
KafkaMessage(message) ==
  [topic |-> message.topic, partition |-> message.partition,
   offset |-> message.offset, key |-> message.key, value |-> message.value,
   timestamp |-> message.timestamp, headers |-> message.headers]

\* the state after AIAgentService() was constructed
Constructed ==
  /\ pc = "start_78"
  /\ ret = "sc_exit"
  /\ pending = "none"
  /\ svcRunning = FALSE
  /\ webRunning = FALSE
  /\ mpRunning = FALSE
  /\ consumer = None
  /\ kc = "absent"
  /\ closeCalls = 0
  /\ fetched = <<>>
  /\ cur = NoMsg
  /\ dispatched = <<>>
  /\ log = <<>>
  /\ iterations = 0
  /\ toolSends = 0
  /\ fallbackSent = <<>>
  /\ excText = "none"
  /\ signals = 0
  /\ stopIdx = NoStop
  /\ loopStopIdx = NoStop
  /\ tOp = "none"
  /\ tIn = [kind |-> "none"]
  /\ tHttp = [status |-> "none"]
  /\ tOut = [result |-> "none"]

\* values of HEALTH_CHECK_PORT in the environment
HealthPorts == {health_check_port_default, 9090}

Init == Constructed /\ health_check_port = health_check_port_default

\* the same start under every health port setting
ConfigInit == Constructed /\ health_check_port \in HealthPorts

\* self.web_server = WebServer(self): no port is passed, self.port is the default
WebServer_port == WebServer_default_port

\* --------------------------------------------------- AIAgentService.start
\* self.running = True
start_78 ==
  /\ pc = "start_78"
  /\ svcRunning' = TRUE
  /\ pc' = "web_86"
  /\ UNCHANGED <<ret, pending, webRunning, mpVars, loopVars, agentVars, ghostVars, toolVars, cfgVars>>

\* mutant of web_server_start: a failed start is logged and start() goes on
web_server_start_swallow ==
  /\ pc = "web_86"
  /\ \E ok \in BOOLEAN : webRunning' = (IF ok THEN TRUE ELSE webRunning)
  /\ pc' = "create_58"
  /\ UNCHANGED <<ret, pending, svcRunning, mpVars, loopVars, agentVars, ghostVars, toolVars, cfgVars>>

\* self.web_server.start(): binds the port and starts the thread, or raises
web_server_start ==
  /\ pc = "web_86"
  /\ \E ok \in BOOLEAN :
       IF ok THEN /\ webRunning' = TRUE
                  /\ pc' = "create_58"
             ELSE /\ webRunning' = webRunning
                  /\ pc' = "start_except_96"
  /\ UNCHANGED <<ret, pending, svcRunning, mpVars, loopVars, agentVars, ghostVars, toolVars, cfgVars>>

\* ------------------------------------------- MessageProcessor.create_consumer
\* consumer = KafkaConsumer(**consumer_config): connects, or raises KafkaError
create_consumer_58 ==
  /\ pc = "create_58"
  /\ \E ok \in BOOLEAN :
       IF ok THEN /\ kc' = "open"
                  /\ pc' = "subscribe_62"
                  /\ UNCHANGED <<ret, pending, mpRunning>>
             ELSE /\ kc' = kc
                  /\ pending' = "KafkaError"
                  /\ mpRunning' = mpRunning
                  /\ ret' = "sc_exit"
                  /\ pc' = "stop_110"
  /\ UNCHANGED <<svcVars, consumer, closeCalls, loopVars, agentVars, ghostVars, toolVars, cfgVars>>

\* consumer.subscribe([settings.monitored_topic]); return consumer
create_consumer_62 ==
  /\ pc = "subscribe_62"
  /\ \E ok \in BOOLEAN :
       IF ok THEN /\ pc' = "assign_68"
                  /\ UNCHANGED <<ret, pending>>
             ELSE /\ pending' = "KafkaError"
                  /\ ret' = "sc_exit"
                  /\ pc' = "stop_110"
  /\ UNCHANGED <<svcVars, mpVars, loopVars, agentVars, ghostVars, toolVars, cfgVars>>

\* ------------------------------------------- MessageProcessor.start_consuming
\* self.consumer = <the consumer create_consumer returned>
start_consuming_68 ==
  /\ pc = "assign_68"
  /\ consumer' = "kc"
  /\ pc' = "run_69"
  /\ UNCHANGED <<ret, pending, svcVars, mpRunning, kc, closeCalls, loopVars,
                 agentVars, ghostVars, toolVars, cfgVars>>

\* self.running = True
start_consuming_69 ==
  /\ pc = "run_69"
  /\ mpRunning' = TRUE
  /\ pc' = "iter_73"
  /\ UNCHANGED <<ret, pending, svcVars, consumer, kc, closeCalls, loopVars,
                 agentVars, ghostVars, toolVars, cfgVars>>

\* for message in self.consumer: iter(self.consumer); iter(None) is a TypeError,
\* which `except Exception` logs and re-raises through the finally block
start_consuming_iter ==
  /\ pc = "iter_73"
  /\ IF consumer = None
       THEN /\ pending' = "TypeError"
            /\ ret' = "sc_exit"
            /\ pc' = "stop_110"
       ELSE /\ pc' = "next_73"
            /\ UNCHANGED <<ret, pending>>
  /\ UNCHANGED <<svcVars, mpVars, loopVars, agentVars, ghostVars, toolVars, cfgVars>>

\* next(iterator), entry: a closed KafkaConsumer raises StopIteration, which
\* ends the for loop normally; the finally block runs stop_consuming
start_consuming_next ==
  /\ pc = "next_73"
  /\ IF kc = "closed"
       THEN /\ ret' = "sc_exit"
            /\ pc' = "stop_110"
       ELSE /\ pc' = "poll_73"
            /\ ret' = ret
  /\ UNCHANGED <<pending, svcVars, mpVars, loopVars, agentVars, ghostVars, toolVars, cfgVars>>

\* next(iterator), blocked in poll: yields the next record of the bus, or raises
\* a bus error; when the consumer was closed meanwhile (signal handler), a record
\* already polled is still yielded, otherwise the poll raises
start_consuming_poll ==
  /\ pc = "poll_73"
  /\ \/ /\ Len(fetched) < MaxRecords
        /\ \E topic \in Topics, raw \in RawValues, hdrs \in RawHeaders :
             LET message == ConsumerRecord(Len(fetched) + 1, topic, raw, hdrs)
             IN  /\ fetched' = Append(fetched, message)
                 /\ cur' = message
        /\ pc' = "check_74"
        /\ UNCHANGED <<ret, pending>>
     \/ /\ pending' = IF kc = "closed" THEN "AssertionError" ELSE "KafkaError"
        /\ ret' = "sc_exit"
        /\ pc' = "stop_110"
        /\ UNCHANGED <<fetched, cur>>
  /\ UNCHANGED <<svcVars, mpVars, dispatched, log, agentVars, ghostVars, toolVars, cfgVars>>

\* mutant of start_consuming_74: the running flag is not looked at
start_consuming_74_no_break ==
  /\ pc = "check_74"
  /\ pc' = "handle_79"
  /\ UNCHANGED <<ret, pending, svcVars, mpVars, loopVars, agentVars, ghostVars, toolVars, cfgVars>>

\* if not self.running: break
start_consuming_74 ==
  /\ pc = "check_74"
  /\ IF ~mpRunning
       THEN /\ ret' = "sc_exit"
            /\ pc' = "stop_110"
       ELSE /\ pc' = "handle_79"
            /\ ret' = ret
  /\ UNCHANGED <<pending, svcVars, mpVars, loopVars, agentVars, ghostVars, toolVars, cfgVars>>

\* --------------------------------------- UnknownTopicMonitor._handle_message
\* metadata dict of lines 139-146
Metadata(message) ==
  [topic |-> message.topic, partition |-> message.partition,
   offset |-> message.offset, timestamp |-> message.timestamp,
   headers |-> message.headers, key |-> message.key]

\* mutant of IsMonitored: the filter lets every topic through
IsMonitored_every_topic(message) == TRUE

\* the topic filter of line 135
IsMonitored(message) == message.topic = monitored_topic

\* message.value[:100] of line 136 raises TypeError on a None value
SliceRaises(value) == value = None

\* mutant of start_consuming_handle: the callback is handed to a worker and the
\* loop goes on to the next record without waiting for its return
start_consuming_handle_no_wait ==
  /\ pc = "handle_79"
  /\ dispatched' = Append(dispatched,
          [content |-> cur.value, metadata |-> Metadata(KafkaMessage(cur))])
  /\ pc' = "next_73"
  /\ UNCHANGED <<ret, pending, svcVars, mpVars, fetched, cur, log, agentVars,
                 ghostVars, toolVars, cfgVars>>

\* lines 79-92 of start_consuming with _handle_message (133-151) and the entry of
\* AIAgentService._handle_unknown_message (main.py 59-67), up to the call of
\* process_unknown_message
start_consuming_handle ==
  /\ pc = "handle_79"
  /\ LET message == KafkaMessage(cur)
     IN  IF ~IsMonitored(message)
           THEN /\ log' = Append(log, <<message.offset, "ignored_151">>)
                /\ pc' = "next_73"
                /\ UNCHANGED dispatched
           ELSE IF SliceRaises(message.value)
             THEN /\ pc' = "except_95"
                  /\ UNCHANGED <<dispatched, log>>
             ELSE /\ dispatched' = Append(dispatched,
                        [content |-> message.value, metadata |-> Metadata(message)])
                  /\ pc' = "pum_80"
                  /\ UNCHANGED log
  /\ UNCHANGED <<ret, pending, svcVars, mpVars, fetched, cur, agentVars, ghostVars, toolVars, cfgVars>>

\* mutant of start_consuming_95: the except block re-raises, ending the loop
start_consuming_95_reraise ==
  /\ pc = "except_95"
  /\ log' = Append(log, <<cur.offset, "error_95">>)
  /\ pending' = "TypeError"
  /\ ret' = "sc_exit"
  /\ pc' = "stop_110"
  /\ UNCHANGED <<svcVars, mpVars, fetched, cur, dispatched, agentVars, ghostVars, toolVars, cfgVars>>

\* except Exception as e: logger.error(...); continue
start_consuming_95 ==
  /\ pc = "except_95"
  /\ log' = Append(log, <<cur.offset, "error_95">>)
  /\ pc' = "next_73"
  /\ UNCHANGED <<ret, pending, svcVars, mpVars, fetched, cur, dispatched,
                 agentVars, ghostVars, toolVars, cfgVars>>

\* ------------------------------------------------ notification primitive/tool
HttpOutcomes == {"200", "201", "202", "404", "500", "Timeout", "ConnectionError"}
SuccessCodes == {"200", "201", "202"}
HttpExceptions == {"Timeout", "ConnectionError"}

notification_recipient_entity == "user:default/btison"

send_backstage_notification_only_200(title, description, http) ==
  [posts   |-> 1,
   payload |-> [title |-> title, description |-> description,
                entityRef |-> notification_recipient_entity],
   result  |-> IF http = "200" THEN "Notification sent successfully"
               ELSE "Error: Failed to send notification",
   raised  |-> FALSE]

\* send_backstage_notification(title, description) under HTTP outcome http
send_backstage_notification(title, description, http) ==
  [posts   |-> 1,
   payload |-> [title |-> title, description |-> description,
                entityRef |-> notification_recipient_entity],
   result  |-> IF http \in SuccessCodes THEN "Notification sent successfully"
               ELSE IF http \in HttpExceptions THEN "Error: Network error"
               ELSE "Error: Failed to send notification",
   raised  |-> FALSE]

\* arguments the model can hand to the notification tool
\* a key's value in the parsed argument: absent, a string, or a JSON value of
\* another type written by its JSON text
StringValues == {"", "text"}
FieldValues == {"MISSING"} \cup StringValues \cup {"0", "7", "[1]"}

\* Python truth of a value: '' and 0 are false, 'text', 7 and [1] are true
truthy(v) == v \notin {"", "0"}
ToolArgs ==
  {[kind |-> k, title |-> "MISSING", description |-> "MISSING"] :
      k \in {"not_json", "non_object"}}
  \cup {[kind |-> "object", title |-> t, description |-> d] :
      t \in FieldValues, d \in FieldValues}

\* data.get(key, '')
dict_get(v, default) == IF v = "MISSING" THEN default ELSE v

\* exceptions met inside the tools' try blocks
ToolExceptions == HttpExceptions \cup {"JSONDecodeError", "AttributeError"}

tool_catches_RequestException_only(e) == e \in HttpExceptions

\* the tools' last clause, except Exception
tool_catches(e) == e \in ToolExceptions

BackstageNotificationTool_run_no_description_check(arg, http) ==
  IF arg.kind # "object" \/ ~truthy(dict_get(arg.title, ""))
    THEN [posts |-> 0, result |-> "Error: title is required", raised |-> FALSE]
    ELSE LET r == send_backstage_notification(dict_get(arg.title, ""),
                                              dict_get(arg.description, ""), http)
         IN  [posts |-> r.posts, result |-> r.result, raised |-> FALSE]

\* BackstageNotificationTool._run(notification_data) under HTTP outcome http
BackstageNotificationTool_run(arg, http) ==
  IF arg.kind = "not_json"
    THEN [posts |-> 0, result |-> "Failed to parse notification data JSON",
          raised |-> ~tool_catches("JSONDecodeError")]
  ELSE IF arg.kind = "non_object"
    THEN [posts |-> 0, result |-> "Failed to send notification",
          raised |-> ~tool_catches("AttributeError")]
  ELSE IF ~truthy(dict_get(arg.title, ""))
    THEN [posts |-> 0, result |-> "Error: title is required", raised |-> FALSE]
  ELSE IF ~truthy(dict_get(arg.description, ""))
    THEN [posts |-> 0, result |-> "Error: description is required",
          raised |-> FALSE]
  ELSE LET r == send_backstage_notification(dict_get(arg.title, ""),
                                            dict_get(arg.description, ""), http)
       IN  [posts |-> r.posts, result |-> r.result, raised |-> r.raised]

\* ------------------------------------------------- BackstageCatalogTool._run
\* entities of a catalog answer: kind, and the metadata keys the tool reads
EntityKinds == {"Group", "User"}
Entities ==
  [kind : EntityKinds, name : {"MISSING", "ops"}, namespace : {"MISSING", "infra"},
   title : {"MISSING", "", "Ops Team"}]

RECURSIVE SeqsUpTo(_, _)
SeqsUpTo(S, n) ==
  IF n = 0 THEN {<<>>}
  ELSE LET shorter == SeqsUpTo(S, n - 1)
       IN  shorter \cup {Append(q, e) : q \in shorter, e \in S}

\* outcomes of requests.get(url, headers, params, timeout=30)
CatalogResponses ==
  {[status |-> e, shape |-> "none", entities |-> <<>>] : e \in HttpExceptions}
  \cup {[status |-> c, shape |-> "text", entities |-> <<>>] : c \in {"404", "500"}}
  \cup {[status |-> "200", shape |-> b, entities |-> <<>>] :
          b \in {"malformed", "object"}}
  \cup {[status |-> "200", shape |-> "list", entities |-> l] :
          l \in SeqsUpTo(Entities, MaxEntities)}

NoGroups == "No groups found in the Backstage Catalog."

GroupOf_no_default_namespace(entity) ==
  [entity_ref   |-> "group:" \o dict_get(entity.namespace, "") \o "/"
                     \o dict_get(entity.name, ""),
   display_name |-> IF dict_get(entity.title, "") # "" THEN entity.title
                    ELSE dict_get(entity.name, "")]

\* the dict appended to groups for one Group entity
GroupOf(entity) ==
  LET name         == dict_get(entity.name, "")
      namespace    == dict_get(entity.namespace, "default")
      title        == dict_get(entity.title, "")
  IN  [entity_ref   |-> "group:" \o namespace \o "/" \o name,
       display_name |-> IF title # "" THEN title ELSE name]

IsGroup_any_kind(entity) == TRUE

\* entity.get("kind") == "Group"
IsGroup(entity) == entity.kind = "Group"

RECURSIVE GroupsIn(_)
\* the for loop over entities
GroupsIn(entities) ==
  IF entities = <<>> THEN <<>>
  ELSE (IF IsGroup(Head(entities)) THEN <<GroupOf(Head(entities))>> ELSE <<>>)
       \o GroupsIn(Tail(entities))

\* one line of the result, without its newline
BulletLine(group) ==
  "- **" \o group.display_name \o "** (" \o group.entity_ref \o ")"

\* BackstageCatalogTool._run(query) under the outcome resp of its GET; the
\* text returned is result, a blank line, then the lines in order
BackstageCatalogTool_run(resp) ==
  IF resp.status \in HttpExceptions
    THEN [result |-> "Error: Network error querying Backstage Catalog",
          lines |-> <<>>, raised |-> ~tool_catches(resp.status)]
  ELSE IF resp.status # "200"
    THEN [result |-> "Error: Failed to query Backstage Catalog: " \o resp.status,
          lines |-> <<>>, raised |-> FALSE]
  ELSE IF resp.shape = "malformed"
    THEN [result |-> "Error: Unexpected error querying Backstage Catalog",
          lines |-> <<>>, raised |-> ~tool_catches("JSONDecodeError")]
  ELSE IF resp.shape = "object"
    THEN [result |-> "Error: Unexpected error querying Backstage Catalog",
          lines |-> <<>>, raised |-> ~tool_catches("AttributeError")]
  ELSE LET groups == GroupsIn(resp.entities)
       IN  IF groups = <<>>
             THEN [result |-> NoGroups, lines |-> <<>>, raised |-> FALSE]
             ELSE [result |-> "Found " \o ToString(Len(groups))
                               \o " group(s) in Backstage Catalog:",
                   lines  |-> [i \in 1..Len(groups) |-> BulletLine(groups[i])],
                   raised |-> FALSE]

\* POSTs one tool call of the reasoning loop can make, over every argument the
\* model may write and every HTTP outcome
ToolRunPosts ==
  {BackstageNotificationTool_run(arg, http).posts :
     arg \in ToolArgs, http \in HttpOutcomes}

\* ------------------------------- MessageAnalysisAgent.process_unknown_message
\* arguments of the callback invocation in progress
Args == dispatched[Len(dispatched)]

\* json.dumps(metadata.get('headers', {}), indent=2): bytes values are not JSON
\* serializable (TypeError)
JsonDumpsRaises(headers) == headers = "bytes"

\* mutant of pum_catches: `except TypeError` in place of `except Exception`
pum_catches_TypeError_only(e) == e = "TypeError"

\* `except Exception as e` of line 102: every exception raised in the try block
\* (TypeError, the model client's errors) is an Exception
pum_catches(e) == e \in {"TypeError", "LLMError"}

\* an exception e raised inside the try block of lines 79-100: caught at line
\* 102, else it leaves the callback, main.py line 70 logs it and re-raises into
\* the except block of the consume loop
PumRaise(e) ==
  IF pum_catches(e)
    THEN /\ excText' = e
         /\ pc' = "pum_except_103"
         /\ UNCHANGED log
    ELSE /\ excText' = excText
         /\ log' = Append(log, <<Args.metadata.offset, "main_70">>)
         /\ pc' = "except_95"

\* lines 80-95: message_content[:100], json.dumps of the headers, the prompt
pum_80 ==
  /\ pc = "pum_80"
  /\ IF SliceRaises(Args.content) \/ JsonDumpsRaises(Args.metadata.headers)
       THEN PumRaise("TypeError")
       ELSE /\ pc' = "agent_run"
            /\ UNCHANGED <<excText, log>>
  /\ iterations' = 0
  /\ UNCHANGED <<ret, pending, svcVars, mpVars, fetched, cur, dispatched,
                 toolSends, fallbackSent, ghostVars, toolVars, cfgVars>>

\* what one call of the language model yields: a final answer, a tool call, text
\* the output parser rejects (handle_parsing_errors=True turns it into an
\* observation), or an exception of the model client
ModelOutputs == {"final", "get_backstage_groups", "send_backstage_notification",
                 "unknown_tool", "malformed", "raise"}

\* mutant of agent_run: a run that ends without a notification is turned into
\* an error, so the fallback sends one
agent_run_enforces_send ==
  /\ pc = "agent_run"
  /\ pc' = IF toolSends = 0 THEN "pum_except_103" ELSE "pum_return"
  /\ UNCHANGED <<ret, pending, svcVars, mpVars, loopVars, agentVars, ghostVars, toolVars, cfgVars>>

\* mutant of ShouldContinue: one round too many (<= in place of <)
ShouldContinue_off_by_one(n) == n <= max_iterations

\* AgentExecutor._should_continue: iterations < max_iterations
ShouldContinue(n) == n < max_iterations

\* self.agent.run(input): the AgentExecutor loop built by _create_agent, one
\* iteration per step; after max_iterations it returns the stopped response
agent_run ==
  /\ pc = "agent_run"
  /\ IF ~ShouldContinue(iterations)
       THEN /\ pc' = "pum_return"
            /\ UNCHANGED <<iterations, toolSends, excText, log>>
       ELSE \E out \in ModelOutputs :
              CASE out = "final" ->
                     /\ pc' = "pum_return"
                     /\ UNCHANGED <<iterations, toolSends, excText, log>>
                [] out = "raise" ->
                     /\ PumRaise("LLMError")
                     /\ UNCHANGED <<iterations, toolSends>>
                [] out = "send_backstage_notification" ->
                     \E posts \in ToolRunPosts :
                       /\ toolSends' = toolSends + posts
                       /\ iterations' = iterations + 1
                       /\ pc' = "agent_run"
                       /\ UNCHANGED <<excText, log>>
                [] OTHER ->
                     /\ iterations' = iterations + 1
                     /\ pc' = "agent_run"
                     /\ UNCHANGED <<toolSends, excText, log>>
  /\ UNCHANGED <<ret, pending, svcVars, mpVars, fetched, cur, dispatched,
                 fallbackSent, ghostVars, toolVars, cfgVars>>

\* mutant of FallbackDescription: the partition printed in the Offset line
FallbackDescription_offset_swapped(e, metadata) ==
  [error |-> e, topic |-> metadata.topic, partition |-> metadata.partition,
   offset |-> metadata.partition, timestamp |-> metadata.timestamp]

\* description of the fallback notification, lines 109-119
FallbackDescription(e, metadata) ==
  [error |-> e, topic |-> metadata.topic, partition |-> metadata.partition,
   offset |-> metadata.offset, timestamp |-> metadata.timestamp]

\* lines 102-123: the fallback send; whatever it returns or raises is swallowed
pum_except_103 ==
  /\ pc = "pum_except_103"
  /\ \E http \in HttpOutcomes :
       LET r == send_backstage_notification("AI Agent Error",
                   FallbackDescription(excText, Args.metadata), http)
       IN  fallbackSent' = Append(fallbackSent,
                                  [payload |-> r.payload, result |-> r.result])
  /\ pc' = "pum_return"
  /\ UNCHANGED <<ret, pending, svcVars, mpVars, loopVars, iterations, toolSends,
                 excText, ghostVars, toolVars, cfgVars>>

\* process_unknown_message, _handle_unknown_message and _handle_message return;
\* the loop goes on to the next record
pum_return ==
  /\ pc = "pum_return"
  /\ log' = Append(log, <<Args.metadata.offset, "returned">>)
  /\ iterations' = 0
  /\ toolSends' = 0
  /\ fallbackSent' = <<>>
  /\ excText' = "none"
  /\ pc' = "next_73"
  /\ UNCHANGED <<ret, pending, svcVars, mpVars, fetched, cur, dispatched, ghostVars, toolVars, cfgVars>>

\* -------------------------------------------- MessageProcessor.stop_consuming
\* run by the main thread (finally block of start_consuming, or stop() called
\* from start()'s except block), statement by statement
\* self.running = False
stop_consuming_110 ==
  /\ pc = "stop_110"
  /\ mpRunning' = FALSE
  /\ pc' = "stop_112"
  /\ UNCHANGED <<ret, pending, svcVars, consumer, kc, closeCalls, loopVars,
                 agentVars, ghostVars, toolVars, cfgVars>>

\* if self.consumer:
stop_consuming_112 ==
  /\ pc = "stop_112"
  /\ pc' = IF consumer # None THEN "stop_114" ELSE ret
  /\ UNCHANGED <<ret, pending, svcVars, mpVars, loopVars, agentVars, ghostVars, toolVars, cfgVars>>

\* self.consumer.close() inside try/except Exception: with self.consumer None by
\* now the AttributeError is caught; an exception of close() is caught as well
stop_consuming_114 ==
  /\ pc = "stop_114"
  /\ IF consumer = None
       THEN UNCHANGED <<kc, closeCalls>>
       ELSE /\ kc' = "closed"
            /\ closeCalls' = closeCalls + 1
  /\ pc' = "stop_118"
  /\ UNCHANGED <<ret, pending, svcVars, mpRunning, consumer, loopVars, agentVars,
                 ghostVars, toolVars, cfgVars>>

\* finally: self.consumer = None
stop_consuming_118 ==
  /\ pc = "stop_118"
  /\ consumer' = None
  /\ pc' = ret
  /\ UNCHANGED <<ret, pending, svcVars, mpRunning, kc, closeCalls, loopVars,
                 agentVars, ghostVars, toolVars, cfgVars>>

\* mutant of start_consuming_exit: the except blocks log without re-raising
start_consuming_exit_swallow ==
  /\ pc = "sc_exit"
  /\ pc' = "done"
  /\ UNCHANGED <<ret, pending, svcVars, mpVars, loopVars, agentVars, ghostVars, toolVars, cfgVars>>

\* start_consuming is left: returns when no exception is pending (start_monitoring
\* and start() return, the process ends), else the exception reaches start()
start_consuming_exit ==
  /\ pc = "sc_exit"
  /\ pc' = IF pending = "none" THEN "done" ELSE "start_except_96"
  /\ UNCHANGED <<ret, pending, svcVars, mpVars, loopVars, agentVars, ghostVars, toolVars, cfgVars>>

\* ---------------------------------------------------- AIAgentService.stop
\* mutant of stop_consuming_effect: the reference is not cleared after close()
stop_consuming_effect_no_clear ==
  /\ mpRunning' = FALSE
  /\ IF consumer # None
       THEN /\ kc' = "closed"
            /\ closeCalls' = closeCalls + 1
       ELSE UNCHANGED <<kc, closeCalls>>
  /\ consumer' = consumer

\* the whole of stop_consuming, as the signal handler runs it
stop_consuming_effect ==
  /\ mpRunning' = FALSE
  /\ IF consumer # None
       THEN /\ kc' = "closed"
            /\ closeCalls' = closeCalls + 1
       ELSE UNCHANGED <<kc, closeCalls>>
  /\ consumer' = None

\* WebServer.stop(): if self.running and self.server
web_server_stop_effect == webRunning' = FALSE

\* except Exception in start(): self.stop() run by the main thread, lines 96 and
\* 101-106, then stop_monitoring
start_except_96 ==
  /\ pc = "start_except_96"
  /\ IF svcRunning
       THEN /\ svcRunning' = FALSE
            /\ ret' = "web_stop_111"
            /\ pc' = "stop_110"
       ELSE /\ pc' = "exit_97"
            /\ UNCHANGED <<svcRunning, ret>>
  /\ UNCHANGED <<pending, webRunning, mpVars, loopVars, agentVars, ghostVars, toolVars, cfgVars>>

\* mutant of stop_111: the web server is left alone
stop_111_skip_web ==
  /\ pc = "web_stop_111"
  /\ pc' = "exit_97"
  /\ UNCHANGED <<ret, pending, svcVars, mpVars, loopVars, agentVars, ghostVars, toolVars, cfgVars>>

\* self.web_server.stop() of line 111, then stop() returns to line 97
stop_111 ==
  /\ pc = "web_stop_111"
  /\ web_server_stop_effect
  /\ pc' = "exit_97"
  /\ UNCHANGED <<ret, pending, svcRunning, mpVars, loopVars, agentVars, ghostVars, toolVars, cfgVars>>

\* sys.exit(1)
start_97 ==
  /\ pc = "exit_97"
  /\ pc' = "exit1"
  /\ UNCHANGED <<ret, pending, svcVars, mpVars, loopVars, agentVars, ghostVars, toolVars, cfgVars>>

\* ------------------------------------------ AIAgentService._signal_handler
\* positions of the main thread inside the consume loop (running was set)
LoopPcs == {"iter_73", "next_73", "poll_73", "check_74", "handle_79", "except_95",
            "pum_80", "agent_run", "pum_except_103", "pum_return"}

\* SIGINT/SIGTERM delivered between two statements of the main thread: the
\* handler runs self.stop() to completion, then the main thread resumes
_signal_handler ==
  /\ pc \notin {"done", "exit1"}
  /\ signals < MaxSignals
  /\ signals' = signals + 1
  /\ stopIdx' = IF stopIdx = NoStop /\ pc # "start_78" THEN Len(fetched) ELSE stopIdx
  /\ IF svcRunning
       THEN /\ svcRunning' = FALSE
            /\ stop_consuming_effect
            /\ web_server_stop_effect
            /\ loopStopIdx' = IF loopStopIdx = NoStop /\ pc \in LoopPcs
                                THEN Len(fetched) ELSE loopStopIdx
       ELSE UNCHANGED <<svcVars, mpVars, loopStopIdx>>
  /\ UNCHANGED <<pc, ret, pending, loopVars, agentVars, toolVars, cfgVars>>

\* ---------------------------------------------------------- specification
Next ==
  \/ start_78
  \/ web_server_start
  \/ create_consumer_58
  \/ create_consumer_62
  \/ start_consuming_68
  \/ start_consuming_69
  \/ start_consuming_iter
  \/ start_consuming_next
  \/ start_consuming_poll
  \/ start_consuming_74
  \/ start_consuming_handle
  \/ start_consuming_95
  \/ pum_80
  \/ agent_run
  \/ pum_except_103
  \/ pum_return
  \/ stop_consuming_110
  \/ stop_consuming_112
  \/ stop_consuming_114
  \/ stop_consuming_118
  \/ start_consuming_exit
  \/ start_except_96
  \/ stop_111
  \/ start_97
  \/ _signal_handler

Spec == Init /\ [][Next]_vars

\* the program under every health port setting
ConfigSpec == ConfigInit /\ [][Next]_vars

\* ------------------------------------------------------------ claim helpers
Returned == {i \in 1..Len(log) : log[i][2] = "returned"}
InFlight == Len(dispatched) - Cardinality(Returned)
DispatchesOf(off) == {i \in 1..Len(dispatched) : dispatched[i].metadata.offset = off}
LogOf(off) == {log[i][2] : i \in {j \in 1..Len(log) : log[j][1] = off}}
AnalysisPcs == {"pum_80", "agent_run", "pum_except_103", "pum_return"}

\* C1: every process_unknown_message call makes exactly one notification-send
\* attempt: one send by the tool or one fallback send, never zero, never two.
C1_ExactlyOneSendAttempt ==
  pc = "pum_return" => toolSends + Len(fallbackSent) = 1

\* C2: process_unknown_message never propagates an exception: the except block
\* of _handle_unknown_message (main.py line 70) never runs, and the consume
\* loop's except block is never entered for a record whose callback was invoked.
C2_AnalyzeNeverRaises ==
  /\ \A i \in 1..Len(log) : log[i][2] # "main_70"
  /\ pc = "except_95" => DispatchesOf(cur.offset) = {}

\* C2 witness: the agent raised, the fallback send itself failed, and the call
\* is returning normally
C2_Witness ==
  /\ pc = "pum_return"
  /\ excText = "LLMError"
  /\ Len(fallbackSent) = 1
  /\ fallbackSent[1].result = "Error: Network error"

\* C3: when the prompt build or the agent run raised, the call returns after
\* exactly one fallback send titled "AI Agent Error" whose description holds
\* the error text and the topic, partition, offset and timestamp of the message.
C3_FallbackOnException ==
  /\ pc = "pum_except_103" => (excText # "none" /\ fallbackSent = <<>>)
  /\ (pc = "pum_return" /\ excText # "none") =>
       /\ Len(fallbackSent) = 1
       /\ fallbackSent[1].payload.title = "AI Agent Error"
       /\ fallbackSent[1].payload.description =
            [error |-> excText, topic |-> cur.topic, partition |-> cur.partition,
             offset |-> cur.offset, timestamp |-> cur.timestamp]
  /\ (pc = "pum_return" /\ excText = "none") => fallbackSent = <<>>
  /\ \A i \in 1..Len(log) : log[i][2] # "main_70"

\* C3 witness: the model call raised in a later round and the fallback was sent
C3_Witness ==
  /\ pc = "pum_return"
  /\ excText = "LLMError"
  /\ iterations > 0
  /\ Len(fallbackSent) = 1

\* C4: every record of the monitored topic consumed while running, empty or
\* null payload included, gets exactly one callback invocation with its value
\* and metadata. (A record has a log line once its handling has ended.)
C4_MonitoredRecordDispatchedOnce ==
  \A i \in 1..Len(log) :
    LET r == fetched[log[i][1]]
    IN  r.topic = monitored_topic =>
          /\ Cardinality(DispatchesOf(r.offset)) = 1
          /\ \A d \in DispatchesOf(r.offset) :
               dispatched[d] = [content |-> r.value, metadata |-> Metadata(r)]

\* C5: at most one analysis is in flight, no record is fetched while one is,
\* and callbacks are invoked in fetch order.
C5_OneInFlightInOrder ==
  /\ InFlight \in {0, 1}
  /\ InFlight = 1 <=> pc \in AnalysisPcs
  /\ pc \in {"next_73", "poll_73"} => InFlight = 0
  /\ \A i, j \in 1..Len(dispatched) :
       i < j => dispatched[i].metadata.offset < dispatched[j].metadata.offset
  /\ \A i \in 1..Len(dispatched) :
       /\ dispatched[i].metadata.offset \in 1..Len(fetched)
       /\ dispatched[i].content = fetched[dispatched[i].metadata.offset].value

\* C5 witness: the second analysis runs after the first one returned
C5_Witness ==
  /\ Len(dispatched) = 2
  /\ pc = "agent_run"
  /\ iterations > 0
  /\ Cardinality(Returned) = 1

\* C6: a record of another topic never reaches the callback: it is only logged
\* as ignored, and no notification is sent while it is handled.
C6_OtherTopicIgnored ==
  /\ \A i \in 1..Len(dispatched) : dispatched[i].metadata.topic = monitored_topic
  /\ \A i \in 1..Len(fetched) :
       fetched[i].topic # monitored_topic =>
         /\ DispatchesOf(i) = {}
         /\ LogOf(i) \subseteq {"ignored_151"}
  /\ cur.topic # monitored_topic =>
       (pc \notin AnalysisPcs /\ toolSends = 0 /\ fallbackSent = <<>>)

\* C6 witness: a record of another topic was handled and the loop went on
C6_Witness ==
  /\ Len(fetched) = 2
  /\ fetched[1].topic = "other"
  /\ LogOf(1) = {"ignored_151"}
  /\ pc = "agent_run"

\* C7: an exception in the handling of one record is logged and the loop goes
\* on with the next record: it does not exit, the failed record is not
\* dispatched (again), and records handled later are dispatched as usual.
C7_Inv ==
  /\ \A i \in 1..Len(fetched) : Cardinality(DispatchesOf(i)) <= 1
  /\ \A i \in 1..Len(log) :
       log[i][2] = "error_95" =>
         /\ DispatchesOf(log[i][1]) = {}
         /\ LogOf(log[i][1]) = {"error_95"}
  /\ \A i \in 1..Len(log) :
       LET r == fetched[log[i][1]]
       IN  (r.topic = monitored_topic /\ r.value # None) =>
             Cardinality(DispatchesOf(r.offset)) = 1

C7_Step ==
  (pc = "except_95" /\ pc' # pc) =>
    /\ pc' = "next_73"
    /\ pending' = "none"
    /\ UNCHANGED <<mpVars, fetched, dispatched>>

C7_LoopSurvivesRecordError == []C7_Inv /\ [][C7_Step]_vars

\* C7 witness: record 1 failed in its handling and record 2 is being analysed
C7_Witness ==
  /\ LogOf(1) = {"error_95"}
  /\ DispatchesOf(2) # {}
  /\ pc = "agent_run"

\* C8: once stop() was requested after start() began, no record fetched after
\* the request is dispatched to the callback (and the loop exits).
C8_StopEndsDispatch ==
  \A i \in 1..Len(dispatched) :
    stopIdx = NoStop \/ dispatched[i].metadata.offset <= stopIdx

\* C9: a stop arriving while the loop runs leaves the analysis in flight alone
\* (it runs to its return), and a record fetched after the stop is discarded
\* at the running check without reaching the callback.
C9_Inv ==
  /\ \A i \in 1..Len(dispatched) :
       loopStopIdx = NoStop \/ dispatched[i].metadata.offset <= loopStopIdx
  /\ \A i \in 1..Len(log) : loopStopIdx = NoStop \/ log[i][1] <= loopStopIdx

C9_Step ==
  signals' # signals => UNCHANGED <<pc, ret, pending, loopVars, agentVars>>

C9_InFlightReturns ==
  (pc \in AnalysisPcs /\ loopStopIdx # NoStop) ~>
     (pc = "next_73" /\ "returned" \in LogOf(cur.offset))

C9_StopAtIterationBoundary == []C9_Inv /\ [][C9_Step]_vars /\ C9_InFlightReturns

\* C9 witness: the stop arrived with record 1 fetched, its callback returned,
\* and record 2, fetched after the stop, was discarded by the break
C9_Witness ==
  /\ loopStopIdx = 1
  /\ Len(fetched) = 2
  /\ LogOf(1) = {"returned"}
  /\ LogOf(2) = {}
  /\ pc = "stop_110"

\* C10: stop_consuming is idempotent and does not raise: a call ends with
\* running false, the consumer closed and the reference cleared; a call made
\* after that closes nothing and changes nothing.
StopPcs == {"stop_110", "stop_112", "stop_114", "stop_118"}
MainStopStep == pc \in StopPcs /\ signals' = signals
MainStopReturn == MainStopStep /\ pc' \notin StopPcs
HandlerStopCall == signals' # signals /\ svcRunning

C10_Inv ==
  /\ pc = "stop_118" => kc = "closed"
  /\ pc \in StopPcs => ret \in {"sc_exit", "web_stop_111"}

C10_Step ==
  /\ (MainStopReturn \/ HandlerStopCall) => (~mpRunning' /\ consumer' = None)
  /\ (HandlerStopCall /\ consumer # None) => kc' = "closed"
  /\ ((MainStopStep \/ HandlerStopCall) /\ ~mpRunning /\ consumer = None) =>
        UNCHANGED mpVars
  /\ MainStopStep => pc' \in StopPcs \cup {ret}

FairSpec ==
  /\ Spec
  /\ WF_vars(pum_80)
  /\ WF_vars(agent_run)
  /\ WF_vars(pum_except_103)
  /\ WF_vars(pum_return)
  /\ WF_vars(stop_consuming_110)
  /\ WF_vars(stop_consuming_112)
  /\ WF_vars(stop_consuming_114)
  /\ WF_vars(stop_consuming_118)
  /\ WF_vars(start_consuming_exit)
  /\ WF_vars(start_except_96)
  /\ WF_vars(stop_111)
  /\ WF_vars(start_97)

\* C11: a bus error raised while the consumer is created or a record is
\* fetched is not handled per record: it leaves start_consuming through the
\* finally block, start() runs stop() and the process exits with status 1.
ExitPcs == StopPcs \cup {"sc_exit", "start_except_96", "web_stop_111", "exit_97",
                         "exit1"}

C11_Inv ==
  /\ pending = "KafkaError" => pc \in ExitPcs
  /\ pc = "done" => pending = "none"
  /\ pc = "exit1" =>
       (~svcRunning /\ ~mpRunning /\ consumer = None)

C11_Step ==
  /\ pending = "KafkaError" => pending' = "KafkaError"
  /\ (pending = "none" /\ pending' = "KafkaError") =>
        (pc \in {"create_58", "subscribe_62", "poll_73"} /\ pc' = "stop_110"
         /\ ret' = "sc_exit" /\ log' = log)
  /\ (pc = "sc_exit" /\ pending # "none" /\ pc' # pc) => pc' = "start_except_96"
  /\ (pc = "start_except_96" /\ pc' # pc) =>
        (~svcRunning' /\ pc' \in {"stop_110", "exit_97"})

C11_BusErrorIsFatal ==
  []C11_Inv /\ [][C11_Step]_vars /\ (pending = "KafkaError" ~> pc = "exit1")

\* C11 witness: the fetch raised a bus error after a record was handled, and
\* the process has exited with status 1
C11_Witness ==
  /\ pending = "KafkaError"
  /\ pc = "exit1"
  /\ Len(log) > 0
  /\ kc = "closed"

\* C12: the reasoning loop runs at most max_iterations rounds and then ends,
\* also when the model never gives a final answer; every call of
\* process_unknown_message returns.
C12_Inv ==
  /\ iterations <= max_iterations
  /\ toolSends <= iterations
  /\ pc \notin AnalysisPcs => iterations = 0

C12_Step ==
  (pc = "agent_run" /\ iterations = max_iterations /\ pc' # pc) =>
     (pc' = "pum_return" /\ UNCHANGED agentVars)

C12_BoundedReasoningLoop ==
  /\ []C12_Inv
  /\ [][C12_Step]_vars
  /\ (pc \in AnalysisPcs ~> pc = "next_73")

\* C12 witness: the model never gave a final answer and the loop was stopped
\* after max_iterations rounds
C12_Witness ==
  /\ pc = "pum_return"
  /\ iterations = max_iterations
  /\ excText = "none"

\* C19: whatever the headers of an accepted message, the prompt is built and
\* the agent is run on it: the headers never send the call to the fallback.
C19_HeadersNeverFallback ==
  pc = "pum_except_103" => excText # "TypeError"

\* C20: when the reasoning loop ends without raising (final answer or
\* iteration limit), the call returns without a fallback send, whether or not
\* the notification tool sent anything during the run.
C20_Inv ==
  (pc = "pum_return" /\ excText = "none") => fallbackSent = <<>>

C20_Step ==
  (pc = "agent_run" /\ pc' = "pum_return") =>
     (excText = "none" /\ UNCHANGED agentVars)

C20_NoFallbackWithoutRaise == []C20_Inv /\ [][C20_Step]_vars

\* C20 witness: the loop ran out of rounds, nothing was sent by the tool and
\* nothing by the fallback
C20_Witness ==
  /\ pc = "pum_return"
  /\ excText = "none"
  /\ iterations = max_iterations
  /\ toolSends = 0
  /\ fallbackSent = <<>>

\* ------------------------------------------------------- the tools on their own
\* The tools keep nothing between calls, so each application is taken from
\* the idle state.
\* BackstageNotificationTool._run applied to one argument under one HTTP outcome
call_BackstageNotificationTool ==
  /\ tOp = "none"
  /\ \E arg \in ToolArgs, http \in HttpOutcomes :
       /\ tOp' = "BackstageNotificationTool._run"
       /\ tIn' = arg
       /\ tHttp' = [status |-> http]
       /\ tOut' = BackstageNotificationTool_run(arg, http)
  /\ UNCHANGED mainVars

\* send_backstage_notification applied to one title and description
call_send_backstage_notification ==
  /\ tOp = "none"
  /\ \E title \in {"AI Agent Error", "text"}, http \in HttpOutcomes :
       /\ tOp' = "send_backstage_notification"
       /\ tIn' = [title |-> title, description |-> "text"]
       /\ tHttp' = [status |-> http]
       /\ tOut' = send_backstage_notification(title, "text", http)
  /\ UNCHANGED mainVars

\* BackstageCatalogTool._run under one outcome of its GET
call_BackstageCatalogTool ==
  /\ tOp = "none"
  /\ \E resp \in CatalogResponses :
       /\ tOp' = "BackstageCatalogTool._run"
       /\ tIn' = [query |-> ""]
       /\ tHttp' = resp
       /\ tOut' = BackstageCatalogTool_run(resp)
  /\ UNCHANGED mainVars

ToolNext ==
  \/ call_BackstageNotificationTool
  \/ call_send_backstage_notification
  \/ call_BackstageCatalogTool

ToolSpec == Init /\ [][ToolNext]_vars

\* ------------------------------------------------------ HealthRequestHandler
health_check_always_healthy(running) == "healthy"

\* AIAgentService.health_check()["status"]
health_check(running) == IF running THEN "healthy" ELSE "stopped"

Paths == {"/health", "/status", "/metrics"}

\* do_GET: the status line and the body's status key ("MISSING" in the 404 body)
HealthRequestHandler_do_GET(path, running) ==
  IF path \in {"/health", "/status"}
    THEN LET health_data == health_check(running)
         IN  [code   |-> IF health_data = "healthy" THEN 200 ELSE 503,
              status |-> health_data]
    ELSE [code |-> 404, status |-> "MISSING"]

\* one request served by the server thread, which lives from WebServer.start
\* to WebServer.stop and reads AIAgentService.running once
do_GET ==
  /\ webRunning
  /\ \E path \in Paths :
       /\ tOp' = "do_GET"
       /\ tIn' = [path |-> path]
       /\ tOut' = HealthRequestHandler_do_GET(path, svcRunning)
  /\ UNCHANGED <<mainVars, tHttp>>

HealthNext ==
  \/ Next
  \/ do_GET

HealthSpec == Init /\ [][HealthNext]_vars

\* ---------------------------------------------------------------- C13
RanNotificationTool == tOp = "BackstageNotificationTool._run"
RanSend             == tOp = "send_backstage_notification"
RanCatalogTool      == tOp = "BackstageCatalogTool._run"

\* C13: the notification tool returns an error string and makes no network
\* call when its argument is not valid JSON, or is JSON with a missing or
\* empty title, or with a missing or empty description.
C13_RejectsBadArgument ==
  (/\ RanNotificationTool
   /\ \/ tIn.kind \in {"not_json", "non_object"}
      \/ tIn.title \in {"MISSING", ""}
      \/ tIn.description \in {"MISSING", ""})
  => /\ tOut.posts = 0
     /\ ~tOut.raised
     /\ tOut.result \in {"Failed to parse notification data JSON",
                          "Failed to send notification",
                          "Error: title is required",
                          "Error: description is required"}
     /\ (tIn.kind = "not_json"
           => tOut.result = "Failed to parse notification data JSON")

C13_Witness ==
  /\ RanNotificationTool
  /\ tIn = [kind |-> "object", title |-> "text", description |-> ""]
  /\ tHttp.status = "200"
  /\ tOut.posts = 0
  /\ tOut.result = "Error: description is required"

\* ---------------------------------------------------------------- C14
ErrorResults ==
  {"Failed to parse notification data JSON", "Failed to send notification",
   "Error: title is required", "Error: description is required",
   "Error: Network error", "Error: Failed to send notification",
   "Error: Network error querying Backstage Catalog",
   "Error: Failed to query Backstage Catalog: 404",
   "Error: Failed to query Backstage Catalog: 500",
   "Error: Unexpected error querying Backstage Catalog"}

HttpFailed ==
  \/ tHttp.status \notin {"200", "201", "202"}
  \/ RanCatalogTool /\ (tHttp.status # "200" \/ tHttp.shape # "list")

\* C14: both tools return a string and never raise, for every input and every
\* outcome of their HTTP call; a failed call is reported as an error string.
C14_ToolsNeverRaise ==
  (RanNotificationTool \/ RanCatalogTool)
  => /\ ~tOut.raised
     /\ tOut.result # ""
     /\ HttpFailed => tOut.result \in ErrorResults

C14_Witness ==
  /\ RanCatalogTool
  /\ tHttp.status = "200"
  /\ tHttp.shape = "malformed"
  /\ ~tOut.raised
  /\ tOut.result = "Error: Unexpected error querying Backstage Catalog"

\* ---------------------------------------------------------------- C15
\* C15: send_backstage_notification makes exactly one POST carrying the
\* configured recipient, returns success exactly for status 200, 201 and 202,
\* and turns every other outcome into an error result that is not raised.
C15_OnePostSuccessIff2xx ==
  RanSend
  => /\ tOut.posts = 1
     /\ tOut.payload = [title |-> tIn.title, description |-> tIn.description,
                         entityRef |-> notification_recipient_entity]
     /\ ~tOut.raised
     /\ (tOut.result = "Notification sent successfully"
           <=> tHttp.status \in {"200", "201", "202"})
     /\ (tHttp.status \in {"Timeout", "ConnectionError"}
           => tOut.result = "Error: Network error")
     /\ (tHttp.status \in {"404", "500"}
           => tOut.result = "Error: Failed to send notification")

C15_Witness ==
  /\ RanSend
  /\ tHttp.status = "202"
  /\ tOut.posts = 1
  /\ tOut.result = "Notification sent successfully"

\* ---------------------------------------------------------------- C16
ListAnswer == RanCatalogTool /\ tHttp.status = "200" /\ tHttp.shape = "list"

\* C16: a 200 answer holding no entity of kind Group gives the fixed
\* no-groups sentinel: not an empty string, an error or an exception.
C16_NoGroupsSentinel ==
  (/\ ListAnswer
   /\ \A i \in 1..Len(tHttp.entities) : tHttp.entities[i].kind # "Group")
  => /\ tOut.result = "No groups found in the Backstage Catalog."
     /\ tOut.lines = <<>>
     /\ ~tOut.raised

C16_Witness ==
  /\ ListAnswer
  /\ Len(tHttp.entities) = MaxEntities
  /\ \A i \in 1..Len(tHttp.entities) : tHttp.entities[i].kind = "User"
  /\ tOut.result = "No groups found in the Backstage Catalog."

\* ---------------------------------------------------------------- C17
C17_Groups == SelectSeq(tHttp.entities, LAMBDA e : e.kind = "Group")
C17_Name(e) == IF e.name = "MISSING" THEN "" ELSE e.name
C17_Expected(e) ==
  "- **"
  \o (IF e.title \in {"MISSING", ""} THEN C17_Name(e) ELSE e.title)
  \o "** (group:"
  \o (IF e.namespace = "MISSING" THEN "default" ELSE e.namespace)
  \o "/" \o C17_Name(e) \o ")"

\* C17: for a 200 answer the output has one bullet line per Group entity and
\* none for other kinds, in response order; each pairs
\* group:<namespace>/<name> (namespace default when absent) with the title,
\* or with the name when the title is empty.
C17_OneBulletPerGroup ==
  ListAnswer
  => /\ Len(tOut.lines) = Len(C17_Groups)
     /\ \A k \in 1..Len(C17_Groups) : tOut.lines[k] = C17_Expected(C17_Groups[k])

C17_Witness ==
  /\ ListAnswer
  /\ tHttp.entities =
       << [kind |-> "Group", name |-> "ops", namespace |-> "infra",
           title |-> "Ops Team"],
          [kind |-> "Group", name |-> "ops", namespace |-> "MISSING",
           title |-> ""] >>
  /\ tOut.lines = << "- **Ops Team** (group:infra/ops)",
                      "- **ops** (group:default/ops)" >>
  /\ tOut.result = "Found 2 group(s) in Backstage Catalog:"

\* ---------------------------------------------------------------- C18
\* C18: a GET of /health or /status is answered 200 with status healthy
\* exactly when AIAgentService.running is true at the request and 503
\* when it is false; any other path is answered 404.
C18_Step ==
  (tOp' = "do_GET" /\ toolVars' # toolVars)
  => /\ webRunning
     /\ IF tIn'.path \in {"/health", "/status"}
          THEN /\ tOut'.code = (IF svcRunning THEN 200 ELSE 503)
               /\ tOut'.status = "healthy" <=> svcRunning
          ELSE tOut'.code = 404

C18_HealthFollowsRunning == [][C18_Step]_vars

C18_Witness ==
  /\ tOp = "do_GET"
  /\ tIn.path = "/status"
  /\ tOut.code = 503
  /\ ~svcRunning
  /\ webRunning

\* ---------------------------------------------------------------- C21
\* C21: when the agent run does not raise, the notification tool has made at
\* most one HTTP send over all rounds of the reasoning loop.
C21_AtMostOneSendOnSuccess ==
  (pc = "pum_return" /\ excText = "none") => toolSends <= 1

\* ---------------------------------------------------------------- C22
\* C22: the notification tool makes its network call only for a JSON object
\* whose title and description are both non-empty strings.
C22_SendsOnlyForStrings ==
  (RanNotificationTool /\ tOut.posts > 0)
  => /\ tIn.kind = "object"
     /\ tIn.title \in StringValues \ {""}
     /\ tIn.description \in StringValues \ {""}

\* ---------------------------------------------------------------- C23
\* C23: in every reachable state, MessageProcessor.running = true implies that
\* consumer refers to an open Kafka consumer (not None, not closed).
C23_RunningImpliesOpenConsumer ==
  mpRunning => (consumer # None /\ kc = "open")

\* ---------------------------------------------------------------- C24
\* C24: when start_consuming returns or raises, running is false, the consumer
\* reference is None and every Kafka consumer created during the call is closed.
C24_LeftClean ==
  pc = "sc_exit" => (~mpRunning /\ consumer = None /\ kc # "open")

\* ---------------------------------------------------------------- C25
C25_Inv ==
  pc \in {"web_stop_111", "exit_97", "exit1"}
  => (~svcRunning /\ ~mpRunning /\ consumer = None)

C25_Step ==
  \* stop() called by the signal handler
  /\ signals' # signals
       => IF svcRunning
            THEN ~svcRunning' /\ ~mpRunning' /\ consumer' = None /\ ~webRunning'
                 /\ (consumer # None => closeCalls' = closeCalls + 1)
            ELSE UNCHANGED <<svcVars, mpVars, pc, ret, pending, loopVars, agentVars>>
  \* stop() called by start()'s except block
  /\ (pc = "start_except_96" /\ pc' # pc)
       => IF svcRunning
            THEN ~svcRunning' /\ pc' = "stop_110" /\ ret' = "web_stop_111"
            ELSE /\ pc' = "exit_97"
                 /\ UNCHANGED <<svcVars, mpVars, pending, loopVars, agentVars>>
  \* the monitor stop run for it returns to the web-server stop
  /\ (pc \in StopPcs /\ ret = "web_stop_111" /\ pc' \notin StopPcs)
       => pc' = "web_stop_111"
  /\ (pc = "web_stop_111" /\ pc' # pc)
       => (~webRunning' /\ pc' = "exit_97" /\ pending' = pending)

\* C25: AIAgentService.stop() never raises and is idempotent: called while
\* running is true it clears the flag and attempts the monitor stop and the
\* web-server stop; called while running is false it changes nothing.
C25_StopIdempotentNeverRaises ==
  []C25_Inv /\ [][C25_Step]_vars /\ (pc = "start_except_96" ~> pc = "exit1")

C25_Witness ==
  /\ pc = "exit1"
  /\ signals = 1
  /\ closeCalls = 1
  /\ ~svcRunning
  /\ ~webRunning
  /\ stopIdx # NoStop
  /\ loopStopIdx = NoStop

\* ---------------------------------------------------------------- C26
\* start() is in its except block, or past it, with no exception of
\* start_consuming pending: web_server.start() raised
WebServerStartFailed ==
  /\ pending = "none"
  /\ \/ pc \in {"start_except_96", "web_stop_111", "exit_97", "exit1"}
     \/ pc \in StopPcs /\ ret = "web_stop_111"

NothingConsumed ==
  kc = "absent" /\ consumer = None /\ fetched = <<>> /\ dispatched = <<>>

C26_Inv ==
  /\ pc \in {"start_78", "web_86"} => NothingConsumed
  /\ WebServerStartFailed => NothingConsumed

C26_Step ==
  /\ (pc = "web_86" /\ pc' # pc)
       => \/ pc' = "create_58" /\ webRunning'
          \/ pc' = "start_except_96" /\ webRunning' = webRunning /\ NothingConsumed'
  /\ (kc = "absent" /\ kc' # "absent") => pc = "create_58"

\* C26: consuming begins only after the web server has started; when its start
\* raises, no Kafka consumer is created, no record is dispatched, stop() is
\* run and the process exits with status 1.
C26_WebServerFirst ==
  []C26_Inv /\ [][C26_Step]_vars /\ (WebServerStartFailed ~> pc = "exit1")

C26_Witness ==
  /\ pc = "exit1"
  /\ WebServerStartFailed
  /\ NothingConsumed
  /\ ~svcRunning
  /\ ~webRunning
  /\ signals = 0

\* ---------------------------------------------------------------- C27
\* C27: the port the status web server listens on is the configured
\* settings.health_check_port, for every configured value.
C27_ListensOnConfiguredPort ==
  webRunning => WebServer_port = health_check_port


====
